---- MODULE Spec2Model ----
(***************************************************************************)
(* Ingestion state machine of the AscultiCor inference service             *)
(* (src/inference/app/mqtt_handler.py) together with the persistence       *)
(* gateway it calls (src/inference/app/supabase_client.py).                *)
(*                                                                         *)
(* Execution model.  The message callback, the tasks it creates and the    *)
(* two background loops are taken to run on one asyncio event loop, so     *)
(* that asyncio.create_task of a coroutine succeeds.  A coroutine runs     *)
(* without interruption until it suspends.  Every method of                *)
(* SupabaseClient is a plain `def` that returns bool / Optional[str]       *)
(* (supabase_client.py:42-236), while the handler writes                   *)
(* `await self.supabase.<method>(...)`: the call is made, and awaiting     *)
(* its result raises TypeError without suspending.  Likewise               *)
(* `asyncio.create_task(self.supabase.update_session_status(...))` makes   *)
(* the call and then raises TypeError.  The only real suspension points    *)
(* are therefore the asyncio.sleep calls of the two background loops.      *)
(*                                                                         *)
(* Topics.  _on_message accepts a topic only if it splits into exactly 8   *)
(* segments, and reads the ids at indices 1, 3, 5 and the type at index 7. *)
(* A topic of the subscribed grammar                                       *)
(* org/{org}/device/{dev}/session/{sid}/{type} has 7 segments and is       *)
(* dropped.  The message actions StartMsg, ChunkMsg, EndMsg and            *)
(* HeartbeatMsg are the handlers as reached by an accepted topic; Spec     *)
(* offers them directly, RouterSpec offers every message through           *)
(* OnMessage.                                                              *)
(*                                                                         *)
(* A chunk payload is represented by its length in bytes; time is in       *)
(* seconds.  The label the inference engine returns for a buffer's signal  *)
(* and the bool that upload_file returns are inputs of a finalization.     *)
(*                                                                         *)
(* Inference engine (src/inference/app/inference.py).  EngineSpec starts   *)
(* from every outcome of InferenceEngine.__init__ and calls the three      *)
(* predict methods.  A signal is represented by what the methods read of   *)
(* it: whether its preprocessing returns, its variance, and the answer a   *)
(* loaded model gives for it.  Probabilities are in hundredths.            *)
(* SignalSpec feeds predict_ecg with signals reconstructed from the        *)
(* samples of an int16 buffer and computes their variance.                 *)
(*                                                                         *)
(* Background loops.  Spec and RouterSpec take a pass of the timeout       *)
(* sweeper as one step.  client.loop_start() (mqtt_handler.py:173) runs    *)
(* the message callback on the network thread of the MQTT client, so the   *)
(* synchronous part of a message handler can also take place between the   *)
(* statements of a pass; LoopsSpec takes a pass of the live-metrics        *)
(* publisher in two steps and offers start and chunk messages in between.  *)
(***************************************************************************)
EXTENDS Integers, Sequences, FiniteSets, TLC

(* ------------------------------ bounds -------------------------------- *)
MaxMsgs == 3
MaxPasses == 2
MaxTime == 15
TickSec == 5
\* longest ECG signal, in samples, and width in bits of a sample of the signed
\* integer format: the quotient sample / 2^(width - 1) ranges over [-1, 1) for
\* every width, and TLC's integers cannot hold the sums of squares of 16 bits
MaxSamples == 3
SampleBits == 8

(* ------------------------- program constants -------------------------- *)
pcg_max_duration == 15
ecg_max_duration == 60
timeout_sec == 10
SweepSleepSec == 5

(* ------------------------------ inputs -------------------------------- *)
Sessions == {"s1"}
Modalities == {"pcg", "ecg"}
Orgs == {"o1"}
Devices == {"d1"}
\* ids as they come out of a topic: a segment may be empty
TopicSessions == Sessions \cup {""}
Keys == TopicSessions \X Modalities
\* start payloads: sample_rate_hz and format as carried by the meta JSON
Configs == { [sample_rate_hz |-> 1, format |-> "pcm_s16le"],
             [sample_rate_hz |-> 1, format |-> "float32"],
             [sample_rate_hz |-> 0, format |-> "int16"] }
\* chunk payload lengths in bytes
ChunkLens == {0, 3, 30, 120}
PcgLabels == {"Normal", "Murmur", "Artifact"}
EcgLabels == {"Normal", "SVEB", "VEB", "Fusion", "Unknown"}

VARIABLES
  buffers,    \* self.buffers, an insertion-ordered dict, as a sequence of SessionBuffer records
  tasks,      \* coroutines handed to asyncio.create_task and not yet run (FIFO ready queue)
  calls,      \* persistence-gateway calls made so far, in order
  now,        \* datetime.utcnow(), seconds
  sweepAt,    \* time at which the sweeper's asyncio.sleep(5) returns
  msgs,       \* number of messages dispatched so far
  created,    \* per key: SessionBuffer objects stored into self.buffers
  deleted,    \* per key: executions of `del self.buffers[buffer_key]`
  keyErrors,  \* number of `del self.buffers[k]` executed for an absent k
  finalized,  \* per key: runs of the end handler that passed its guard and reached `finally`
  last,       \* the handler that ran in the last step and what it found
  engine,     \* self.inference_engine: the InferenceEngine after __init__ ran _load_models
  result,     \* the last call of a predict_* method: its input and what it returned or raised
  pub         \* _publish_live_metrics: where its current pass stands

vars == <<buffers, tasks, calls, now, sweepAt, msgs, created, deleted, keyErrors, finalized, last,
         engine, result, pub>>

(* ------------------------- SessionBuffer ------------------------------ *)
KeyOf(b) == <<b.session_id, b.modality>>

Live(bufs, k) == \E i \in 1..Len(bufs) : KeyOf(bufs[i]) = k

Buf(bufs, k) == bufs[CHOOSE i \in 1..Len(bufs) : KeyOf(bufs[i]) = k]

\* self.buffers[k] = b : a new key goes last, an existing key keeps its place
PutBuffer(bufs, k, b) ==
  IF Live(bufs, k)
  THEN [i \in 1..Len(bufs) |-> IF KeyOf(bufs[i]) = k THEN b ELSE bufs[i]]
  ELSE Append(bufs, b)

\* variant: the cleanup is skipped and the ended buffer stays in the map
DelBufferKeep(bufs, k) == bufs

\* del self.buffers[k]
DelBuffer(bufs, k) == SelectSeq(bufs, LAMBDA b : KeyOf(b) # k)

SampleRate(config, m) ==
  IF "sample_rate_hz" \in DOMAIN config THEN config.sample_rate_hz
  ELSE IF m = "pcg" THEN 22050 ELSE 500

NewBuffer(s, org, dev, m, config, t) ==
  [ session_id |-> s, org_id |-> org, device_id |-> dev, modality |-> m,
    chunks |-> <<>>, total_bytes |-> 0, total_samples |-> 0,
    started_at |-> t, last_chunk_at |-> t, ended |-> FALSE,
    sample_rate |-> SampleRate(config, m),
    format |-> IF "format" \in DOMAIN config THEN config.format ELSE "pcm_s16le" ]

\* 'int16' in self.format or 's16' in self.format
IsInt16(fmt) == fmt \in {"pcm_s16le", "int16"}

bytes_per_sample(fmt) == IF IsInt16(fmt) THEN 2 ELSE 1

add_chunk(b, data, t) ==
  [ b EXCEPT !.chunks = Append(@, data),
             !.total_bytes = @ + data,
             !.last_chunk_at = t,
             !.total_samples = @ + (data \div bytes_per_sample(b.format)) ]

\* duration in seconds as a fraction <<numerator, denominator>>
get_duration(b) ==
  IF b.total_samples > 0 /\ b.sample_rate > 0
  THEN <<b.total_samples, b.sample_rate>>
  ELSE <<0, 1>>

\* variant: strict comparison
DurationGT(d, c) == d[1] > c * d[2]

\* duration >= max_duration
DurationGE(d, c) == d[1] >= c * d[2]

max_duration(m) == IF m = "pcg" THEN pcg_max_duration ELSE ecg_max_duration

(* ------------------------ persistence gateway ------------------------- *)
\* m is the modality of the buffer on whose behalf the call is made
Call(op, s, m, arg) == [op |-> op, sid |-> s, m |-> m, arg |-> arg]

\* `await <result of a SupabaseClient method>`: the methods are synchronous
\* and return bool or Optional[str], which are not awaitable
AwaitRaises(c) == TRUE

\* the calls made by a block of consecutive `await gateway(...)` statements:
\* every call up to and including the first one whose await raises
RECURSIVE RunAwaits(_)
RunAwaits(cs) ==
  IF cs = <<>> THEN <<>>
  ELSE IF AwaitRaises(Head(cs)) THEN <<Head(cs)>>
  ELSE <<Head(cs)>> \o RunAwaits(Tail(cs))

Raised(cs) == \E i \in 1..Len(cs) : AwaitRaises(cs[i])

(* --------------------------- finalization ----------------------------- *)
\* the six heads that create_murmur_severity writes into the row
SeverityHeads == {"location", "timing", "shape", "grading", "pitch", "quality"}

\* if pcg_result['label'] == 'Murmur': ... create_murmur_severity (PCG handler only)
SeverityCalls(s, m, label) ==
  IF m = "pcg" /\ label = "Murmur"
  THEN << Call("create_murmur_severity", s, m, [heads |-> SeverityHeads]) >>
  ELSE << >>

\* variant: the ECG handler marks the session done without looking for a PCG buffer
DoneCallsUnchecked(bufs, s, m) ==
  IF m = "ecg" THEN << Call("update_session_status", s, m, "done") >> ELSE << >>

\* if pcg_buffer_key not in self.buffers: update_session_status(done) (ECG handler only)
DoneCalls(bufs, s, m) ==
  IF m = "ecg" /\ ~Live(bufs, <<s, "pcg">>)
  THEN << Call("update_session_status", s, m, "done") >>
  ELSE << >>

\* reconstruct_signal: np.frombuffer raises ValueError when the joined bytes are
\* not a whole number of items (int16: 2 bytes, otherwise float32: 4 bytes)
ReconstructRaises(b) ==
  b.total_bytes % (IF IsInt16(b.format) THEN 2 ELSE 4) # 0

\* len((audio * 32768).astype(np.int16).tobytes()): two bytes per reconstructed item
UploadLen(b) ==
  2 * (b.total_bytes \div (IF IsInt16(b.format) THEN 2 ELSE 4))

\* the gateway calls of the try block of _handle_end_pcg / _handle_end_ecg when no
\* await raises; up is the bool that upload_file returns, which the handler does
\* not read
TryBody(bufs, b, label, up) ==
  LET s == b.session_id
      m == b.modality
  IN  IF ReconstructRaises(b)
      THEN << Call("update_session_status", s, m, "processing") >>
      ELSE << Call("update_session_status", s, m, "processing"),
              Call("upload_file", s, m, [bytes |-> UploadLen(b), returns |-> up]),
              Call("create_recording", s, m, get_duration(b)),
              Call("create_prediction", s, m, label) >>
           \o SeverityCalls(s, m, label)
           \o << Call("create_audit_log", s, m,
                      [action |-> IF m = "pcg" THEN "pcg_inference_completed"
                                               ELSE "ecg_inference_completed"]) >>
           \o DoneCalls(bufs, s, m)

\* the gateway calls of the except block
ExceptBody(b) ==
  << Call("update_session_status", b.session_id, b.modality, "error"),
     Call("create_audit_log", b.session_id, b.modality,
          [action |-> IF b.modality = "pcg" THEN "pcg_inference_failed"
                                            ELSE "ecg_inference_failed"]) >>

\* if buffer_key not in self.buffers: return
EndGuard(bufs, k) == Live(bufs, k)

\* _handle_end_pcg / _handle_end_ecg, run by a task of the given kind; label is
\* what the inference engine returns for the buffer's signal; `plan` records the
\* gateway calls of the try block as written, `made` those actually made; up is
\* the outcome of the storage upload
HandleEnd(s, m, kind, label, up) ==
  LET k == <<s, m>> IN
  IF ~EndGuard(buffers, k)
  THEN /\ UNCHANGED <<buffers, calls, created, deleted, keyErrors, finalized>>
       /\ last' = [op |-> kind, s |-> s, m |-> m, live |-> Live(buffers, k)]
  ELSE LET b       == [Buf(buffers, k) EXCEPT !.ended = TRUE]
           marked  == PutBuffer(buffers, k, b)
           try     == TryBody(marked, b, label, up)
           made    == RunAwaits(try)
                      \o (IF Raised(try) \/ ReconstructRaises(b)
                          THEN RunAwaits(ExceptBody(b)) ELSE <<>>)
       IN  /\ calls' = calls \o made
           \* finally: del self.buffers[buffer_key]
           /\ buffers' = DelBuffer(marked, k)
           /\ deleted' = [deleted EXCEPT ![k] = @ + 1]
           /\ keyErrors' = keyErrors + (IF Live(marked, k) THEN 0 ELSE 1)
           /\ finalized' = [finalized EXCEPT ![k] = @ + 1]
           /\ UNCHANGED created
           /\ last' = [op |-> kind, s |-> s, m |-> m, live |-> Live(buffers, k),
                       buf |-> b, label |-> label, plan |-> try, made |-> made]

(* ------------------------------ router -------------------------------- *)
\* variant: the duplicate-start check is missing
StartAcceptsAny(bufs, k) == TRUE

\* if buffer_key in self.buffers: return
StartAccepts(bufs, k) == ~Live(bufs, k)

\* meta message {type: start_<m>}: _handle_start_pcg / _handle_start_ecg
StartMsg(org, dev, s, m, config) ==
  LET k == <<s, m>> IN
  /\ msgs < MaxMsgs
  /\ msgs' = msgs + 1
  /\ UNCHANGED <<engine, result, pub>>
  /\ last' = [op |-> "start", s |-> s, m |-> m, live |-> Live(buffers, k),
              org |-> org, dev |-> dev]
  /\ IF StartAccepts(buffers, k)
     THEN /\ buffers' = PutBuffer(buffers, k, NewBuffer(s, org, dev, m, config, now))
          /\ created' = [created EXCEPT ![k] = @ + 1]
          \* the status call is made, create_task(<bool>) then raises
          /\ calls' = Append(calls, Call("update_session_status", s, m, "streaming"))
     ELSE UNCHANGED <<buffers, created, calls>>
  /\ UNCHANGED <<tasks, now, sweepAt, deleted, keyErrors, finalized>>

\* asyncio.create_task(self._force_end_session(session_id, modality))
ForceTask(s, m) == [kind |-> "force_end", s |-> s, m |-> m]

\* variant: a chunk for an unknown key creates a buffer with the default config
ChunkAppendAutoCreate(bufs, k, data, t) ==
  LET b == IF Live(bufs, k) THEN Buf(bufs, k)
           ELSE NewBuffer(k[1], "", "", k[2], << >>, t)
  IN  PutBuffer(bufs, k, add_chunk(b, data, t))

\* the buffer map after _handle_data_chunk: no buffer, no change; else add_chunk
ChunkAppend(bufs, k, data, t) ==
  IF ~Live(bufs, k) THEN bufs
  ELSE PutBuffer(bufs, k, add_chunk(Buf(bufs, k), data, t))

\* data message on .../pcg or .../ecg with a raw binary payload: _handle_data_chunk
ChunkMsg(org, dev, s, m, data) ==
  LET k == <<s, m>> IN
  /\ msgs < MaxMsgs
  /\ msgs' = msgs + 1
  /\ UNCHANGED <<engine, result, pub>>
  /\ last' = [op |-> "chunk", s |-> s, m |-> m, live |-> Live(buffers, k),
              org |-> org, dev |-> dev]
  /\ buffers' = ChunkAppend(buffers, k, data, now)
  /\ IF Live(buffers, k) /\ DurationGE(get_duration(Buf(buffers', k)), max_duration(m))
     THEN tasks' = Append(tasks, ForceTask(s, m))
     ELSE UNCHANGED tasks
  /\ UNCHANGED <<calls, now, sweepAt, created, deleted, keyErrors, finalized>>

\* meta message {type: end_<m>}: asyncio.create_task(self._handle_end_<m>(session_id))
EndMsg(org, dev, s, m) ==
  /\ msgs < MaxMsgs
  /\ msgs' = msgs + 1
  /\ UNCHANGED <<engine, result, pub>>
  /\ last' = [op |-> "end_msg", s |-> s, m |-> m, live |-> Live(buffers, <<s, m>>),
              org |-> org, dev |-> dev]
  /\ tasks' = Append(tasks, [kind |-> "end", s |-> s, m |-> m])
  /\ UNCHANGED <<buffers, calls, now, sweepAt, created, deleted, keyErrors, finalized>>

\* heartbeat message: asyncio.create_task(self._handle_heartbeat(device_id))
HeartbeatMsg(org, dev, s) ==
  /\ msgs < MaxMsgs
  /\ msgs' = msgs + 1
  /\ UNCHANGED <<engine, result, pub>>
  /\ last' = [op |-> "heartbeat", s |-> s, m |-> "-", live |-> FALSE,
              org |-> org, dev |-> dev]
  /\ tasks' = Append(tasks, [kind |-> "heartbeat", s |-> "-", m |-> "-", dev |-> dev])
  /\ UNCHANGED <<buffers, calls, now, sweepAt, created, deleted, keyErrors, finalized>>

\* variant: a heartbeat also refreshes last_chunk_at of the device's buffers
HandleHeartbeatKeepAlive(dev) ==
  /\ calls' = calls \o RunAwaits(<< Call("update_device_last_seen", "-", "-", dev) >>)
  /\ buffers' = [i \in 1..Len(buffers) |->
                   IF buffers[i].device_id = dev
                   THEN [buffers[i] EXCEPT !.last_chunk_at = now]
                   ELSE buffers[i]]
  /\ last' = [op |-> "heartbeat_task", s |-> "-", m |-> "-", live |-> FALSE]
  /\ UNCHANGED <<created, deleted, keyErrors, finalized>>

\* _handle_heartbeat: the gateway call is made and its await raises in the task
HandleHeartbeat(dev) ==
  /\ calls' = calls \o RunAwaits(<< Call("update_device_last_seen", "-", "-", dev) >>)
  /\ last' = [op |-> "heartbeat_task", s |-> "-", m |-> "-", live |-> FALSE]
  /\ UNCHANGED <<buffers, created, deleted, keyErrors, finalized>>

\* the event loop runs the oldest ready task to completion
RunTask ==
  /\ tasks # <<>>
  /\ UNCHANGED <<engine, result, pub>>
  /\ LET t == Head(tasks) IN
     IF t.kind = "heartbeat" THEN HandleHeartbeat(t.dev)
     ELSE \E label \in (IF t.m = "pcg" THEN PcgLabels ELSE EcgLabels), up \in BOOLEAN :
             HandleEnd(t.s, t.m, t.kind, label, up)
  /\ tasks' = Tail(tasks)
  /\ UNCHANGED <<now, sweepAt, msgs>>

(* ------------------------- timeout sweeper ---------------------------- *)
\* the gateway calls made for one timed-out buffer
TimeoutBody(b, t) ==
  << Call("update_session_status", b.session_id, b.modality, "error"),
     Call("create_audit_log", b.session_id, b.modality,
          [action |-> "session_timeout", modality |-> b.modality,
           timeout_sec |-> timeout_sec, last_chunk_sec_ago |-> t - b.last_chunk_at]) >>

\* time_since_last > timeout_delta
TimedOut(b, t) == t - b.last_chunk_at > timeout_sec

\* the for loop of one pass over list(self.buffers.items())
RECURSIVE SweepLoop(_, _, _)
SweepLoop(snap, acc, t) ==
  IF snap = <<>> THEN acc
  ELSE LET b == Head(snap) IN
       IF b.ended \/ ~TimedOut(b, t) THEN SweepLoop(Tail(snap), acc, t)
       ELSE LET body == TimeoutBody(b, t) IN
            IF Raised(body)
            \* the exception leaves the loop and is logged by the except clause
            THEN [acc EXCEPT !.calls = @ \o RunAwaits(body)]
            ELSE SweepLoop(Tail(snap),
                           [acc EXCEPT !.calls = @ \o body,
                                       !.dels = Append(@, KeyOf(b)),
                                       !.bufs = DelBuffer(@, KeyOf(b))],
                           t)

\* one iteration of the while loop of _monitor_timeouts, after its sleep
SweepPass ==
  /\ now >= sweepAt
  /\ UNCHANGED <<engine, result, pub>>
  /\ LET r == SweepLoop(buffers, [bufs |-> buffers, calls |-> <<>>, dels |-> <<>>], now) IN
     /\ buffers' = r.bufs
     /\ calls' = calls \o r.calls
     /\ deleted' = [k \in Keys |-> deleted[k] + Cardinality({i \in 1..Len(r.dels) : r.dels[i] = k})]
     /\ last' = [op |-> "sweep", s |-> "-", m |-> "-", live |-> FALSE,
                 stale |-> {KeyOf(buffers[i]) : i \in {j \in 1..Len(buffers) :
                               ~buffers[j].ended /\ TimedOut(buffers[j], now)}}]
  /\ sweepAt' = now + SweepSleepSec
  /\ UNCHANGED <<tasks, now, msgs, created, keyErrors, finalized>>

Tick ==
  /\ now + TickSec <= MaxTime
  /\ now' = now + TickSec
  /\ UNCHANGED <<buffers, tasks, calls, sweepAt, msgs, created, deleted, keyErrors, finalized, last,
                 engine, result, pub>>

(* ----------------------- live-metrics publisher ----------------------- *)
\* The for statement of _publish_live_metrics walks self.buffers.items(),
\* the live dict itself.  A pass is taken in two kinds of step, the advance
\* of the iterator and the body for the buffer it yielded, and messages may
\* be handled between two steps.
BufferKeys(bufs) == [i \in 1..Len(bufs) |-> KeyOf(bufs[i])]

PubIdle(n, seen) ==
  [at |-> "sleep", pos |-> 0, size |-> 0, keys0 |-> <<>>, obj |-> "-", n |-> n, seen |-> seen]

\* the except clause: the pass is over, the while loop goes back to its sleep
PubEnd(outcome, k) ==
  /\ pub' = PubIdle(pub.n, pub.seen)
  /\ last' = [op |-> "publish", s |-> k[1], m |-> k[2], live |-> FALSE,
              outcome |-> outcome, keys0 |-> pub.keys0, keys1 |-> BufferKeys(buffers)]

\* the iterator is advanced; a dict whose size differs from the size it had
\* when the iterator was made raises RuntimeError
PubFetchFrom(it, n, seen) ==
  IF Len(buffers) # it.size
  THEN /\ pub' = PubIdle(n, seen)
       /\ last' = [op |-> "publish", s |-> "-", m |-> "-", live |-> FALSE,
                   outcome |-> "RuntimeError", keys0 |-> it.keys0,
                   keys1 |-> BufferKeys(buffers)]
  ELSE IF it.pos > Len(buffers)
  THEN /\ pub' = PubIdle(n, seen)
       /\ last' = [op |-> "publish", s |-> "-", m |-> "-", live |-> FALSE,
                   outcome |-> "completed", keys0 |-> it.keys0,
                   keys1 |-> BufferKeys(buffers)]
  ELSE /\ pub' = [at |-> "body", pos |-> it.pos, size |-> it.size, keys0 |-> it.keys0,
                  obj |-> buffers[it.pos], n |-> n, seen |-> seen]
       /\ last' = [op |-> "publish_fetch", s |-> buffers[it.pos].session_id,
                   m |-> buffers[it.pos].modality, live |-> TRUE]

\* asyncio.sleep(interval) returns: a pass begins with a new iterator, which
\* the for statement advances at once
PubStart ==
  /\ pub.at = "sleep"
  /\ pub.n < MaxPasses
  /\ PubFetchFrom([pos |-> 1, size |-> Len(buffers), keys0 |-> BufferKeys(buffers)],
                  pub.n + 1,
                  [k \in Keys |-> IF Live(buffers, k) /\ pub.seen[k] < 2
                                  THEN pub.seen[k] + 1 ELSE pub.seen[k]])
  /\ UNCHANGED <<buffers, tasks, calls, now, sweepAt, msgs, created, deleted, keyErrors,
                 finalized, engine, result>>

\* get_quality_metrics: {} without chunks, else computed from reconstruct_signal
QualityRaises(b) == b.chunks # <<>> /\ ReconstructRaises(b)

MetricsCall(b) ==
  Call("create_live_metrics", b.session_id, b.modality,
       [seconds |-> get_duration(b), samples |-> b.total_samples])

\* the body of the for statement for the buffer the iterator yielded
PubBody ==
  /\ pub.at = "body"
  /\ LET k == KeyOf(pub.obj)
         \* the loop variable refers to the buffer object, which the router appends to
         b == IF Live(buffers, k) THEN Buf(buffers, k) ELSE pub.obj
         next == [pos |-> pub.pos + 1, size |-> pub.size, keys0 |-> pub.keys0]
     IN  IF b.ended
         \* continue: the iterator is advanced
         THEN /\ PubFetchFrom(next, pub.n, pub.seen)
              /\ UNCHANGED calls
         ELSE IF QualityRaises(b)
         THEN /\ PubEnd("ValueError", k)
              /\ UNCHANGED calls
         ELSE /\ calls' = calls \o RunAwaits(<< MetricsCall(b) >>)
              /\ IF Raised(<< MetricsCall(b) >>)
                 THEN PubEnd("TypeError", k)
                 ELSE PubFetchFrom(next, pub.n, pub.seen)
  /\ UNCHANGED <<buffers, tasks, now, sweepAt, msgs, created, deleted, keyErrors,
                 finalized, engine, result>>

(* --------------------------- topic router ----------------------------- *)
\* A topic is given as msg.topic.split('/'), the list of its segments; a segment
\* between two adjacent slashes is the empty string.

\* a topic of the subscribed grammar org/{org}/device/{dev}/session/{sid}/{type}
GrammarTopic(org, dev, s, type) ==
  <<"org", org, "device", dev, "session", s, type>>

\* a topic with one more segment before the type, which has the 8 segments that
\* _on_message asks for
LongTopic(org, dev, s, type) ==
  <<"org", org, "device", dev, "session", s, "v1", type>>

\* not (len(topic_parts) != 8)
TopicAccepted(topic) == Len(topic) = 8

\* the message is logged or falls through the elif chain: nothing else happens
NoEffectMsg(op, topic, payload) ==
  /\ msgs < MaxMsgs
  /\ msgs' = msgs + 1
  /\ UNCHANGED <<engine, result, pub>>
  /\ last' = [op |-> op, s |-> "-", m |-> "-", live |-> FALSE, org |-> "-", dev |-> "-",
              topic |-> topic, payload |-> payload]
  /\ UNCHANGED <<buffers, tasks, calls, now, sweepAt, created, deleted, keyErrors, finalized>>

\* A meta payload is given by its form: "not_utf8" (payload.decode raises),
\* "not_json" (json.loads raises), "json_array" (json.loads returns a value that
\* has no .get) or "object" (a dict, with the fields it carries).

\* variant: a payload that names no known type is handled as end_pcg
MetaRouteDefaultEnd(payload) ==
  IF payload.form = "object" /\ "type" \in DOMAIN payload
     /\ payload.type \in {"start_pcg", "end_pcg", "start_ecg", "end_ecg"}
  THEN payload.type
  ELSE "end_pcg"

\* the branch _handle_meta_message takes: "raise" when decoding, parsing or
\* meta.get raises (caught and logged), "none" when no elif matches
MetaRoute(payload) ==
  IF payload.form # "object" THEN "raise"
  ELSE IF "type" \notin DOMAIN payload THEN "none"
  ELSE IF payload.type \in {"start_pcg", "end_pcg", "start_ecg", "end_ecg"} THEN payload.type
  ELSE "none"

\* _handle_meta_message
MetaMsg(org, dev, s, topic, payload) ==
  LET route == MetaRoute(payload) IN
  IF route \in {"start_pcg", "start_ecg"}
  THEN StartMsg(org, dev, s, IF route = "start_pcg" THEN "pcg" ELSE "ecg",
                IF "config" \in DOMAIN payload THEN payload.config ELSE << >>)
  ELSE IF route \in {"end_pcg", "end_ecg"}
  THEN EndMsg(org, dev, s, IF route = "end_pcg" THEN "pcg" ELSE "ecg")
  ELSE NoEffectMsg(IF route = "raise" THEN "meta_error" ELSE "ignored", topic, payload)

\* _on_message
OnMessage(topic, payload) ==
  IF ~TopicAccepted(topic) THEN NoEffectMsg("dropped", topic, payload)
  ELSE LET org_id     == topic[2]
           device_id  == topic[4]
           session_id == topic[6]
           msg_type   == topic[8]
       IN  IF msg_type = "meta" THEN MetaMsg(org_id, device_id, session_id, topic, payload)
           ELSE IF msg_type \in {"pcg", "ecg"}
           THEN ChunkMsg(org_id, device_id, session_id, msg_type, payload.len)
           ELSE IF msg_type = "heartbeat" THEN HeartbeatMsg(org_id, device_id, session_id)
           ELSE NoEffectMsg("ignored", topic, payload)

\* id triples as they come out of a topic: all present, or one segment empty
TopicIds == { <<"o1", "d1", "s1">>, <<"", "d1", "s1">>, <<"o1", "", "s1">>, <<"o1", "d1", "">> }

TopicsOf(type) ==
  { LongTopic(i[1], i[2], i[3], type) : i \in TopicIds }
  \cup { GrammarTopic("o1", "d1", "s1", type) }

MetaPayloads ==
  { [form |-> "object", type |-> "start_pcg",
     config |-> [sample_rate_hz |-> 1, format |-> "pcm_s16le"]],
    [form |-> "object", type |-> "end_pcg"] }

\* meta payloads that are not UTF-8, not JSON, not an object, or name no known type
BadMetaPayloads ==
  { [form |-> "not_utf8"], [form |-> "not_json"], [form |-> "json_array"],
    [form |-> "object"], [form |-> "object", type |-> "calibrate"] }

\* messages offered to the router: <<topic, payload>>
RouterMsgs ==
  ( TopicsOf("meta") \X MetaPayloads )
  \cup ( { LongTopic("o1", "d1", "s1", "meta") } \X BadMetaPayloads )
  \cup ( TopicsOf("pcg") \X { [len |-> 30] } )
  \cup ( TopicsOf("heartbeat") \X { [len |-> 0] } )

(* --------------------------- data payloads ---------------------------- *)
\* A data payload is raw bytes whose first byte is not '{' (given by its
\* length), or starts with '{': then it is not UTF-8, not JSON, or a JSON
\* object whose "data" member is absent, a string or another JSON value.  A
\* string is a sequence over three kinds of character: "A", a character of the
\* base64 alphabet; "=", the pad character; "!", any other character.

\* binascii.a2b_base64 without strict mode, called by base64.b64decode(s):
\* the number of bytes decoded, or -1 when it raises binascii.Error
RECURSIVE a2b_base64(_, _, _, _)
a2b_base64(s, quad_pos, pads, out) ==
  IF s = << >> THEN (IF quad_pos # 0 THEN -1 ELSE out)
  ELSE LET ch == Head(s) IN
       IF ch = "="
       THEN IF quad_pos >= 2 /\ quad_pos + pads + 1 >= 4
            THEN out                                       \* goto done
            ELSE a2b_base64(Tail(s), quad_pos, IF quad_pos >= 2 THEN pads + 1 ELSE pads, out)
       ELSE IF ch # "A"
       THEN a2b_base64(Tail(s), quad_pos, pads, out)       \* not in the alphabet: skipped
       ELSE a2b_base64(Tail(s), (quad_pos + 1) % 4, 0, IF quad_pos = 0 THEN out ELSE out + 1)

\* base64.b64decode(v): TypeError for a value that is not a string
b64decode(v) ==
  IF v.kind # "string" THEN -1 ELSE a2b_base64(v.chars, 0, 0, 0)

\* the try block of _handle_data_chunk up to `data`: the number of bytes to
\* append, or -1 when json.loads, decode or b64decode raises
DecodePayload(payload) ==
  IF payload.form = "raw" THEN payload.len
  ELSE IF payload.form # "object" THEN -1
  ELSE IF "data" \in DOMAIN payload THEN b64decode(payload.data)
  ELSE b64decode([kind |-> "string", chars |-> << >>])

\* data message on .../pcg or .../ecg with any payload: _handle_data_chunk
DataMsg(org, dev, s, m, payload) ==
  LET k == <<s, m>>
      data == DecodePayload(payload)
  IN  /\ msgs < MaxMsgs
      /\ msgs' = msgs + 1
      /\ UNCHANGED <<engine, result, pub>>
      /\ last' = [op |-> "data", s |-> s, m |-> m, live |-> Live(buffers, k),
                  org |-> org, dev |-> dev, payload |-> payload,
                  before |-> buffers, bytes |-> IF Live(buffers, k) THEN data ELSE -1]
      /\ IF ~Live(buffers, k) \/ data < 0
         \* no buffer: return; an exception: logged by the except clause
         THEN UNCHANGED <<buffers, tasks>>
         ELSE /\ buffers' = ChunkAppend(buffers, k, data, now)
              /\ IF DurationGE(get_duration(Buf(buffers', k)), max_duration(m))
                 THEN tasks' = Append(tasks, ForceTask(s, m))
                 ELSE UNCHANGED tasks
      /\ UNCHANGED <<calls, now, sweepAt, created, deleted, keyErrors, finalized>>

Str(chars) == [kind |-> "string", chars |-> chars]

DataPayloads ==
  { [form |-> "raw", len |-> 0], [form |-> "raw", len |-> 30],
    [form |-> "not_utf8"], [form |-> "not_json"], [form |-> "object"],
    [form |-> "object", data |-> [kind |-> "number"]],
    [form |-> "object", data |-> Str(<<"A", "A", "A", "A">>)],
    [form |-> "object", data |-> Str(<<"A", "A", "A", "A", "A", "A", "=", "=">>)],
    [form |-> "object", data |-> Str(<<"A", "A", "A">>)],
    [form |-> "object", data |-> Str(<<"A", "A", "A", "A", "A">>)],
    [form |-> "object", data |-> Str(<<"!", "!", "!", "!">>)],
    [form |-> "object", data |-> Str(<<"A", "!", "A", "A", "A">>)],
    [form |-> "object", data |-> Str(<<"A", "A", "=", "A", "A", "=">>)] }

(* ------------------------- InferenceEngine ---------------------------- *)
\* The three model files in the order _load_models opens them, and what
\* opening one finds.  Probabilities are in hundredths.
ModelFiles == <<"pcg", "severity", "ecg">>
FileStates == {"ok", "missing", "corrupt"}
LoadInputs == [1..3 -> FileStates]
AllLoaded == [i \in 1..3 |-> "ok"]

\* index of the first model whose load raises, 0 if none does
FirstFailure(files) ==
  IF \A i \in 1..3 : files[i] = "ok" THEN 0
  ELSE CHOOSE i \in 1..3 : files[i] # "ok" /\ \A j \in 1..(i - 1) : files[j] = "ok"

\* variant: the fallback leaves the handles that had loaded in place
load_modelsKeepLoaded(files, enable) ==
  LET f == FirstFailure(files)
      h(i) == IF f = 0 \/ i < f THEN "loaded" ELSE IF enable THEN "None" ELSE "unset"
  IN  [ constructed |-> f = 0 \/ enable, enable_demo_mode |-> enable,
        demo_mode_active |-> f # 0 /\ enable, files |-> files,
        pcg_model |-> h(1), severity_model |-> h(2), ecg_model |-> h(3) ]

\* InferenceEngine.__init__ with _load_models
load_models(files, enable) ==
  LET f == FirstFailure(files)
      before(i) == IF i < f THEN "loaded" ELSE "unset"
  IN  IF f = 0
      THEN [ constructed |-> TRUE, enable_demo_mode |-> enable, demo_mode_active |-> FALSE,
             files |-> files,
             pcg_model |-> "loaded", severity_model |-> "loaded", ecg_model |-> "loaded" ]
      ELSE IF enable
      THEN [ constructed |-> TRUE, enable_demo_mode |-> enable, demo_mode_active |-> TRUE,
             files |-> files,
             pcg_model |-> "None", severity_model |-> "None", ecg_model |-> "None" ]
      ELSE [ constructed |-> FALSE, enable_demo_mode |-> enable, demo_mode_active |-> FALSE,
             files |-> files,
             pcg_model |-> before(1), severity_model |-> before(2), ecg_model |-> before(3) ]

pcg_classes == <<"Normal", "Murmur", "Artifact">>
ecg_labels == <<"Normal", "SVEB", "VEB", "Fusion", "Unknown">>
location_labels == <<"AV", "MV", "PV", "TV", "Left heart", "Right heart",
                     "AV+Right", "MV+Right", "Multiple (3+)", "Other">>
timing_labels == <<"Early-systolic", "Mid-systolic", "Late-systolic", "Holosystolic", "Unknown">>
shape_labels == <<"Crescendo", "Decrescendo", "Crescendo-decrescendo", "Plateau", "Unknown">>
grading_labels == <<"I/VI", "II/VI", "III/VI", "IV/VI", "V/VI", "VI/VI", "Unknown">>
pitch_labels == <<"Low", "Medium", "High", "Unknown">>
quality_labels == <<"Blowing", "Harsh", "Musical", "Unknown">>

\* np.argmax: the first index holding the maximum
ArgMax(p) ==
  CHOOSE i \in 1..Len(p) : /\ \A j \in 1..Len(p) : p[j] <= p[i]
                           /\ \A j \in 1..(i - 1) : p[j] < p[i]

\* the dict {labels[i]: probs[i] for i in range(n)}
ProbMap(labels, probs, n) ==
  [ l \in {labels[i] : i \in 1..n} |-> probs[CHOOSE i \in 1..n : labels[i] = l] ]

parse_head(probs, labels) ==
  [ predicted |-> labels[ArgMax(probs)], probabilities |-> ProbMap(labels, probs, Len(labels)) ]

\* variant: the model version is the release tag on every path
ModelVersionFixed(e) == "v1.0.0"

ModelVersion(e) == IF ~e.demo_mode_active THEN "v1.0.0" ELSE "demo"

\* result.update({...}) of the three predict methods
WithMetadata(r, name, e, latency) ==
  r @@ [ model_name |-> name, model_version |-> ModelVersion(e),
         preprocessing_version |-> "v1.0.0", latency_ms |-> latency,
         demo_mode |-> e.demo_mode_active ]

MurmurScenarios == {"systolic_murmur", "diastolic_murmur", "combined_murmur"}

\* variant: the Normal branch reports a vector that does not add up
demo_pcg_predictionRounded(audio, scenario) ==
  [ label |-> "Normal", probabilities |-> ProbMap(pcg_classes, <<75, 15, 11>>, 3) ]

demo_pcg_prediction(audio, scenario) ==
  LET expected_label == IF scenario \in MurmurScenarios THEN "Murmur" ELSE "Normal"
  IN  IF expected_label = "Murmur"
      THEN [ label |-> "Murmur", probabilities |-> ProbMap(pcg_classes, <<20, 70, 10>>, 3) ]
      ELSE IF expected_label = "Artifact"
      THEN [ label |-> "Artifact", probabilities |-> ProbMap(pcg_classes, <<15, 20, 65>>, 3) ]
      ELSE [ label |-> "Normal", probabilities |-> ProbMap(pcg_classes, <<75, 15, 10>>, 3) ]

demo_severity_prediction ==
  [ location |-> [ predicted |-> "MV",
                   probabilities |-> ProbMap(location_labels, <<10, 45, 12, 8, 8, 5, 4, 3, 3, 2>>, 10) ],
    timing   |-> [ predicted |-> "Mid-systolic",
                   probabilities |-> ProbMap(timing_labels, <<10, 50, 15, 20, 5>>, 5) ],
    shape    |-> [ predicted |-> "Crescendo-decrescendo",
                   probabilities |-> ProbMap(shape_labels, <<15, 18, 50, 12, 5>>, 5) ],
    grading  |-> [ predicted |-> "III/VI",
                   probabilities |-> ProbMap(grading_labels, <<5, 12, 38, 22, 10, 5, 8>>, 7) ],
    pitch    |-> [ predicted |-> "Medium",
                   probabilities |-> ProbMap(pitch_labels, <<18, 50, 25, 7>>, 4) ],
    quality  |-> [ predicted |-> "Blowing",
                   probabilities |-> ProbMap(quality_labels, <<48, 28, 15, 9>>, 4) ] ]

\* variant: the high-variance branch names the fourth class
demo_ecg_predictionFusion(ecg) ==
  IF ecg.var100 > 200
  THEN [ prediction |-> "Fusion", confidence |-> 68,
         probabilities |-> ProbMap(ecg_labels, <<12, 10, 6, 68, 4>>, 5) ]
  ELSE [ prediction |-> "Normal", confidence |-> 81,
         probabilities |-> ProbMap(ecg_labels, <<81, 8, 5, 3, 3>>, 5) ]

\* np.var(ecg) is the field var100 of the input, in hundredths
demo_ecg_prediction(ecg) ==
  IF ecg.var100 > 200
  THEN [ prediction |-> "VEB", confidence |-> 68,
         probabilities |-> ProbMap(ecg_labels, <<12, 10, 68, 6, 4>>, 5) ]
  ELSE IF ecg.var100 > 100
  THEN [ prediction |-> "SVEB", confidence |-> 62,
         probabilities |-> ProbMap(ecg_labels, <<20, 62, 8, 5, 5>>, 5) ]
  ELSE [ prediction |-> "Normal", confidence |-> 81,
         probabilities |-> ProbMap(ecg_labels, <<81, 8, 5, 3, 3>>, 5) ]

Returned(fn, in, r) == [fn |-> fn, input |-> in, raised |-> FALSE, value |-> r]
Raises(fn, in) == [fn |-> fn, input |-> in, raised |-> TRUE, value |-> "-"]

\* in.pre_ok: the preprocessor returns; in.out: what the loaded model answers
predict_pcg(e, in) ==
  IF ~in.pre_ok THEN Raises("predict_pcg", in)
  ELSE LET r == IF e.demo_mode_active
                THEN demo_pcg_prediction(in, "normal")
                ELSE [ label |-> pcg_classes[ArgMax(in.out)],
                       probabilities |-> ProbMap(pcg_classes, in.out, 3) ]
       IN  Returned("predict_pcg", in, WithMetadata(r, "pcg_xgboost_classifier", e, in.latency))

predict_murmur_severity(e, in) ==
  IF ~in.pre_ok THEN Raises("predict_murmur_severity", in)
  ELSE LET r == IF e.demo_mode_active
                THEN demo_severity_prediction
                ELSE [ location |-> parse_head(in.out[1], location_labels),
                       timing   |-> parse_head(in.out[2], timing_labels),
                       shape    |-> parse_head(in.out[3], shape_labels),
                       grading  |-> parse_head(in.out[4], grading_labels),
                       pitch    |-> parse_head(in.out[5], pitch_labels),
                       quality  |-> parse_head(in.out[6], quality_labels) ]
       IN  Returned("predict_murmur_severity", in,
                    WithMetadata(r, "murmur_severity_cnn", e, in.latency))

predict_ecg(e, in) ==
  IF ~in.pre_ok THEN Raises("predict_ecg", in)
  ELSE LET r == IF e.demo_mode_active
                THEN demo_ecg_prediction(in)
                ELSE [ prediction |-> ecg_labels[ArgMax(in.out)],
                       confidence |-> in.out[ArgMax(in.out)],
                       probabilities |-> ProbMap(ecg_labels, in.out, 5) ]
       IN  Returned("predict_ecg", in, WithMetadata(r, "ecg_bilstm_predictor", e, in.latency))

\* inputs of the predict methods
Latencies == {0, 12}
PcgOutputs == { <<75, 15, 10>>, <<10, 80, 10>>, <<5, 5, 90>>, <<50, 50, 0>> }
EcgOutputs == { <<81, 8, 5, 3, 3>>, <<5, 5, 5, 80, 5>>, <<0, 0, 0, 0, 100>> }
SeverityOutputs ==
  { << <<91, 1, 1, 1, 1, 1, 1, 1, 1, 1>>, <<60, 10, 10, 10, 10>>, <<10, 10, 10, 60, 10>>,
       <<40, 10, 10, 10, 10, 10, 10>>, <<70, 10, 10, 10>>, <<10, 10, 10, 70>> >> }
Amplitudes == {5, 50, 95}
Variances == {0, 50, 100, 101, 200, 201, 400}
PcgInputs == [pre_ok : BOOLEAN, amp : Amplitudes, out : PcgOutputs, latency : Latencies]
SeverityInputs == [pre_ok : BOOLEAN, amp : Amplitudes, out : SeverityOutputs, latency : Latencies]
EcgInputs == [pre_ok : BOOLEAN, var100 : Variances, out : EcgOutputs, latency : Latencies]

NoResult == [fn |-> "none", input |-> "-", raised |-> FALSE, value |-> "-"]

PredictPcg(in) ==
  /\ engine.constructed
  /\ result' = predict_pcg(engine, in)
  /\ UNCHANGED <<buffers, tasks, calls, now, sweepAt, msgs, created, deleted, keyErrors,
                 finalized, last, engine, pub>>

PredictSeverity(in) ==
  /\ engine.constructed
  /\ result' = predict_murmur_severity(engine, in)
  /\ UNCHANGED <<buffers, tasks, calls, now, sweepAt, msgs, created, deleted, keyErrors,
                 finalized, last, engine, pub>>

PredictEcg(in) ==
  /\ engine.constructed
  /\ result' = predict_ecg(engine, in)
  /\ UNCHANGED <<buffers, tasks, calls, now, sweepAt, msgs, created, deleted, keyErrors,
                 finalized, last, engine, pub>>

(* ------------------- ECG signal through the engine -------------------- *)
\* the divisor 32768.0 of reconstruct_signal at the width of the model
FullScale == 2 ^ (SampleBits - 1)

\* variant: the divisor is half the range of the sample type
reconstruct_signalHalfScale(samples) ==
  [items |-> samples, scale |-> FullScale \div 2]

\* np.frombuffer(full_data, dtype=np.int16).astype(np.float32) / 32768.0: the
\* float sample i is items[i] / scale
reconstruct_signal(samples) ==
  [items |-> samples, scale |-> FullScale]

RECURSIVE SumSeq(_)
SumSeq(q) == IF q = << >> THEN 0 ELSE Head(q) + SumSeq(Tail(q))

Squares(q) == [i \in 1..Len(q) |-> q[i] * q[i]]

\* np.var(ecg) in hundredths, rounded up, so that var100 > 100 * c exactly when
\* the variance is > c; the nan of an empty array compares False with every
\* threshold and is given as 0
np_var100(sig) ==
  LET n == Len(sig.items) IN
  IF n = 0 THEN 0
  ELSE LET num == n * SumSeq(Squares(sig.items)) - SumSeq(sig.items) * SumSeq(sig.items)
           den == n * n * sig.scale * sig.scale
       IN  (100 * num + den - 1) \div den

\* ECGPreprocessor() is built with its default sample_rate
EcgModelRate == 500

\* signal.resample(ecg, int(len(ecg) * self.sample_rate / original_sr)), skipped
\* when original_sr is 0 or equal to the preprocessor's rate
ResampledLen(n, rate) ==
  IF rate # 0 /\ rate # EcgModelRate THEN (n * EcgModelRate) \div rate ELSE n

\* signal.filtfilt pads with 3 * max(len(a), len(b)) samples at each end and
\* raises ValueError unless the signal is longer; butter(4, [low, high],
\* btype='band') has 2 * 4 + 1 coefficients
ButterOrder == 4
FiltfiltPadlen == 3 * (2 * ButterOrder + 1)

\* ECGPreprocessor.process raises for the signal of n samples at this rate
EcgPreprocessRaises(n, rate) == ResampledLen(n, rate) <= FiltfiltPadlen

\* what predict_ecg reads of the signal of an int16 buffer
EcgSignalInput(samples, rate, out, latency) ==
  [ pre_ok |-> ~EcgPreprocessRaises(Len(samples), rate),
    var100 |-> np_var100(reconstruct_signal(samples)),
    out |-> out, latency |-> latency, samples |-> samples, rate |-> rate ]

\* the samples of an int16 buffer: the ends of the range and the middle
SampleValues == {-FullScale, -1, 0, 1, FullScale - 1}
RECURSIVE SeqsUpTo(_, _)
SeqsUpTo(S, n) ==
  IF n = 0 THEN { << >> }
  ELSE LET shorter == SeqsUpTo(S, n - 1)
       IN  shorter \cup {Append(q, x) : q \in {r \in shorter : Len(r) = n - 1}, x \in S}
Signals == SeqsUpTo(SampleValues, MaxSamples)
SignalRates == {1, EcgModelRate}

\* ecg = buffer.reconstruct_signal(); predict_ecg(ecg, buffer.sample_rate)
ReconstructAndPredictEcg(samples, rate, out, latency) ==
  /\ engine.constructed
  /\ result' = predict_ecg(engine, EcgSignalInput(samples, rate, out, latency))
  /\ UNCHANGED <<buffers, tasks, calls, now, sweepAt, msgs, created, deleted, keyErrors,
                 finalized, last, engine, pub>>

(* --------------------------- specification ---------------------------- *)
Init ==
  /\ buffers = <<>>
  /\ tasks = <<>>
  /\ calls = <<>>
  /\ now = 0
  /\ sweepAt = SweepSleepSec
  /\ msgs = 0
  /\ created = [k \in Keys |-> 0]
  /\ deleted = [k \in Keys |-> 0]
  /\ keyErrors = 0
  /\ finalized = [k \in Keys |-> 0]
  /\ last = [op |-> "init", s |-> "-", m |-> "-", live |-> FALSE]
  /\ engine = load_models(AllLoaded, TRUE)
  /\ result = NoResult
  /\ pub = PubIdle(0, [k \in Keys |-> 0])

Next ==
  \/ \E org \in Orgs, dev \in Devices, s \in Sessions, m \in Modalities, c \in Configs :
        StartMsg(org, dev, s, m, c)
  \/ \E org \in Orgs, dev \in Devices, s \in Sessions, m \in Modalities, d \in ChunkLens :
        ChunkMsg(org, dev, s, m, d)
  \/ \E org \in Orgs, dev \in Devices, s \in Sessions, m \in Modalities :
        EndMsg(org, dev, s, m)
  \/ RunTask
  \/ SweepPass
  \/ Tick

Spec == Init /\ [][Next]_vars

\* the event loop runs every task it was given, the sweeper's sleep returns
\* and time passes; no message is bound to arrive
FairSpec == Spec /\ WF_vars(RunTask) /\ WF_vars(SweepPass) /\ WF_vars(Tick)

\* the same machine with every message entering through _on_message
RouterNext ==
  \/ \E msg \in RouterMsgs : OnMessage(msg[1], msg[2])
  \/ RunTask
  \/ SweepPass
  \/ Tick

RouterSpec == Init /\ [][RouterNext]_vars

\* the inference engine on its own: every outcome of construction, then
\* calls of the three predict methods
EngineInit ==
  /\ buffers = <<>>
  /\ tasks = <<>>
  /\ calls = <<>>
  /\ now = 0
  /\ sweepAt = SweepSleepSec
  /\ msgs = 0
  /\ created = [k \in Keys |-> 0]
  /\ deleted = [k \in Keys |-> 0]
  /\ keyErrors = 0
  /\ finalized = [k \in Keys |-> 0]
  /\ last = [op |-> "init", s |-> "-", m |-> "-", live |-> FALSE]
  /\ \E files \in LoadInputs, enable \in BOOLEAN : engine = load_models(files, enable)
  /\ result = NoResult
  /\ pub = PubIdle(0, [k \in Keys |-> 0])

EngineNext ==
  \/ \E in \in PcgInputs : PredictPcg(in)
  \/ \E in \in SeverityInputs : PredictSeverity(in)
  \/ \E in \in EcgInputs : PredictEcg(in)

EngineSpec == EngineInit /\ [][EngineNext]_vars

\* the engine fed by the ECG end handler with the signals of int16 buffers:
\* an engine with its models loaded, one in demo mode, one that failed to start
SignalLoads == {AllLoaded, [i \in 1..3 |-> "missing"]}
SignalOuts == { <<5, 5, 5, 80, 5>> }
SignalLatencies == {12}

SignalInit ==
  /\ buffers = <<>>
  /\ tasks = <<>>
  /\ calls = <<>>
  /\ now = 0
  /\ sweepAt = SweepSleepSec
  /\ msgs = 0
  /\ created = [k \in Keys |-> 0]
  /\ deleted = [k \in Keys |-> 0]
  /\ keyErrors = 0
  /\ finalized = [k \in Keys |-> 0]
  /\ last = [op |-> "init", s |-> "-", m |-> "-", live |-> FALSE]
  /\ \E files \in SignalLoads, enable \in BOOLEAN : engine = load_models(files, enable)
  /\ result = NoResult
  /\ pub = PubIdle(0, [k \in Keys |-> 0])

SignalNext ==
  \E samples \in Signals, rate \in SignalRates, out \in SignalOuts,
     latency \in SignalLatencies :
        ReconstructAndPredictEcg(samples, rate, out, latency)

SignalSpec == SignalInit /\ [][SignalNext]_vars

\* the two background loops beside the router: start and chunk messages, the
\* sweeper's passes and the publisher's passes taken step by step
LoopConfigs == {c \in Configs : c.format = "pcm_s16le"}
LoopChunkLens == {3, 30}

LoopsNext ==
  \/ \E org \in Orgs, dev \in Devices, s \in Sessions, m \in Modalities, c \in LoopConfigs :
        StartMsg(org, dev, s, m, c)
  \/ \E org \in Orgs, dev \in Devices, s \in Sessions, m \in Modalities, d \in LoopChunkLens :
        ChunkMsg(org, dev, s, m, d)
  \/ SweepPass
  \/ PubStart
  \/ PubBody
  \/ Tick

LoopsSpec == Init /\ [][LoopsNext]_vars

\* the data route on its own: starts, data messages with every kind of
\* payload, and the passing of time
DataNext ==
  \/ \E org \in Orgs, dev \in Devices, s \in Sessions, m \in Modalities, c \in LoopConfigs :
        StartMsg(org, dev, s, m, c)
  \/ \E org \in Orgs, dev \in Devices, s \in Sessions, m \in Modalities, p \in DataPayloads :
        DataMsg(org, dev, s, m, p)
  \/ Tick

DataSpec == Init /\ [][DataNext]_vars

\* two tenants and two devices publishing for the same session id
TenantOrgs == {"o1", "o2"}
TenantDevices == {"d1", "d2"}
TenantChunkLens == {30}

TenantNext ==
  \/ \E org \in TenantOrgs, dev \in TenantDevices, s \in Sessions, m \in Modalities,
         c \in LoopConfigs : StartMsg(org, dev, s, m, c)
  \/ \E org \in TenantOrgs, dev \in TenantDevices, s \in Sessions, m \in Modalities,
         d \in TenantChunkLens : ChunkMsg(org, dev, s, m, d)
  \/ \E org \in TenantOrgs, dev \in TenantDevices, s \in Sessions, m \in Modalities :
        EndMsg(org, dev, s, m)
  \/ RunTask

TenantSpec == Init /\ [][TenantNext]_vars

\* a session whose two streams have been started: the state after
\* start_pcg(s1) and start_ecg(s1), from which MaxMsgs more messages arrive
PairConfig == [sample_rate_hz |-> 1, format |-> "pcm_s16le"]
PairChunkLens == {3, 30}

PairInit ==
  /\ buffers = PutBuffer(PutBuffer(<<>>, <<"s1", "pcg">>,
                                    NewBuffer("s1", "o1", "d1", "pcg", PairConfig, 0)),
                          <<"s1", "ecg">>,
                          NewBuffer("s1", "o1", "d1", "ecg", PairConfig, 0))
  /\ tasks = <<>>
  /\ calls = << Call("update_session_status", "s1", "pcg", "streaming"),
                Call("update_session_status", "s1", "ecg", "streaming") >>
  /\ now = 0
  /\ sweepAt = SweepSleepSec
  /\ msgs = 0
  /\ created = [k \in Keys |-> IF k[1] = "s1" THEN 1 ELSE 0]
  /\ deleted = [k \in Keys |-> 0]
  /\ keyErrors = 0
  /\ finalized = [k \in Keys |-> 0]
  /\ last = [op |-> "start", s |-> "s1", m |-> "ecg", live |-> FALSE,
             org |-> "o1", dev |-> "d1"]
  /\ engine = load_models(AllLoaded, TRUE)
  /\ result = NoResult
  /\ pub = PubIdle(0, [k \in Keys |-> 0])

PairNext ==
  \/ \E org \in Orgs, dev \in Devices, s \in Sessions, m \in Modalities,
         d \in PairChunkLens : ChunkMsg(org, dev, s, m, d)
  \/ \E org \in Orgs, dev \in Devices, s \in Sessions, m \in Modalities :
        EndMsg(org, dev, s, m)
  \/ RunTask

PairSpec == PairInit /\ [][PairNext]_vars

(* ============================== claims ================================ *)
CallIdx == 1..Len(calls)

\* number of calls of gateway operation op made for key k
RowsFor(k, op) ==
  Cardinality({i \in CallIdx : calls[i].op = op /\ calls[i].sid = k[1] /\ calls[i].m = k[2]})

\* number of <modality>_inference_completed / _failed audit logs made for key k
FinalAudits(k) ==
  Cardinality({i \in CallIdx :
     /\ calls[i].op = "create_audit_log" /\ calls[i].sid = k[1] /\ calls[i].m = k[2]
     /\ calls[i].arg.action \in {"pcg_inference_completed", "pcg_inference_failed",
                                  "ecg_inference_completed", "ecg_inference_failed"}})

\* the statuses passed to update_session_status for session s, in order
Statuses(s) ==
  LET q == SelectSeq(calls, LAMBDA c : c.op = "update_session_status" /\ c.sid = s)
  IN  [i \in 1..Len(q) |-> q[i].arg]

LastKey == <<last.s, last.m>>

(* C1: exclusive finalization.  For every (session, modality) there are    *)
(* never more completed finalizations than buffers created, hence at most  *)
(* one per created buffer, whatever the order of end tasks, forced-end     *)
(* tasks and sweeper passes; the same bound holds for recording rows,      *)
(* prediction rows and inference_completed/failed audit logs; an end       *)
(* handler that finds no buffer therefore finalizes nothing.               *)
C1_ExclusiveFinalization ==
  \A k \in Keys :
     /\ finalized[k] <= created[k]
     /\ RowsFor(k, "create_recording") <= created[k]
     /\ RowsFor(k, "create_prediction") <= created[k]
     /\ FinalAudits(k) <= created[k]

\* a duplicate end was processed after the only buffer of its key was finalized
C1_Witness ==
  /\ last.op = "end" /\ ~last.live
  /\ created[LastKey] = 1 /\ finalized[LastKey] = 1

StatusRank(st) ==
  IF st = "streaming" THEN 1 ELSE IF st = "processing" THEN 2 ELSE 3

(* C2: lifecycle monotonicity.  In the sequence of statuses emitted for a  *)
(* session no status is followed by an earlier one and nothing follows     *)
(* done or error (the weakest reading of "a prefix of streaming,           *)
(* processing, done|error").                                               *)
C2_LifecycleMonotone ==
  \A s \in Sessions :
     LET q == Statuses(s) IN
     \A i, j \in 1..Len(q) :
        i < j => /\ StatusRank(q[i]) <= StatusRank(q[j])
                 /\ StatusRank(q[i]) < 3

(* C3: every buffer stored into the live map is deleted exactly once: per  *)
(* key the buffers created are the buffers deleted plus the one still      *)
(* live, and no `del` is ever executed for a key that is absent.           *)
C3_DeletedExactlyOnce ==
  /\ keyErrors = 0
  /\ \A k \in Keys :
        created[k] = deleted[k] + (IF Live(buffers, k) THEN 1 ELSE 0)

\* a forced-end task ran after an end task had already deleted the buffer
C3_Witness ==
  /\ last.op = "force_end" /\ ~last.live
  /\ created[LastKey] = 1 /\ deleted[LastKey] = 1 /\ ~Live(buffers, LastKey)

IsTimeoutAudit(c, k) ==
  /\ c.op = "create_audit_log" /\ c.sid = k[1]
  /\ c.arg.action = "session_timeout"
  /\ c.arg.modality = k[2]
  /\ c.arg.timeout_sec = 10
  /\ c.arg.last_chunk_sec_ago >= 10

(* C4: timeout.  After a sweep pass, every buffer that was live, not ended *)
(* and stale by more than stream_timeout_sec at the start of the pass is   *)
(* gone from the live map, its session has been given status error and a   *)
(* session_timeout audit log with modality, timeout_sec and                *)
(* last_chunk_sec_ago, and no recording or prediction row exists for it.   *)
C4_TimeoutSweep ==
  last.op = "sweep" =>
    \A k \in last.stale :
       /\ ~Live(buffers, k)
       /\ \E i \in CallIdx : /\ calls[i].op = "update_session_status"
                              /\ calls[i].sid = k[1] /\ calls[i].arg = "error"
       /\ \E i \in CallIdx : IsTimeoutAudit(calls[i], k)
       /\ RowsFor(k, "create_recording") = 0
       /\ RowsFor(k, "create_prediction") = 0

(* C5: forced end.  A chunk appended to a live buffer schedules one        *)
(* forced-end task if and only if the buffer's duration is then at least   *)
(* the cap of its modality (PCG 15 s, ECG 60 s); otherwise the task queue  *)
(* is unchanged.                                                           *)
C5_ForcedEndIffCap ==
  [][ (msgs' = msgs + 1 /\ last'.op = "chunk" /\ Live(buffers, <<last'.s, last'.m>>)) =>
        LET k   == <<last'.s, last'.m>>
            b   == Buf(buffers', k)
            cap == IF k[2] = "pcg" THEN 15 ELSE 60
            reached == /\ b.total_samples > 0 /\ b.sample_rate > 0
                       /\ b.total_samples >= cap * b.sample_rate
        IN  IF reached
            THEN tasks' = Append(tasks, [kind |-> "force_end", s |-> k[1], m |-> k[2]])
            ELSE tasks' = tasks ]_vars

\* a chunk brought a buffer exactly to its cap and the forced end is queued
C5_Witness ==
  /\ last.op = "chunk" /\ last.live /\ Live(buffers, LastKey)
  /\ LET b == Buf(buffers, LastKey) IN
       /\ b.sample_rate > 0
       /\ b.total_samples = (IF last.m = "pcg" THEN 15 ELSE 60) * b.sample_rate
  /\ tasks # << >> /\ tasks[Len(tasks)] = [kind |-> "force_end", s |-> last.s, m |-> last.m]

\* samples of the largest chunk held by buffer b
MaxChunkSamples(b) ==
  LET n == {b.chunks[i] \div (IF b.format \in {"pcm_s16le", "int16"} THEN 2 ELSE 1) :
              i \in 1..Len(b.chunks)}
  IN  IF n = {} THEN 0 ELSE CHOOSE x \in n : \A y \in n : y <= x

(* C6: duration cap.  The duration a forced finalization takes from its    *)
(* buffer (the one it passes to create_recording) is at most the cap of    *)
(* the modality plus one chunk: samples arriving after the cap was reached *)
(* are not in the buffer.                                                  *)
C6_CapPlusOneChunk ==
  (last.op = "force_end" /\ last.live /\ last.buf.sample_rate > 0) =>
     last.buf.total_samples <=
        (IF last.m = "pcg" THEN 15 ELSE 60) * last.buf.sample_rate + MaxChunkSamples(last.buf)

(* C7: a buffer ended by the duration cap is finalized as a success: the   *)
(* forced finalization creates its prediction row and emits neither status *)
(* error nor a session_timeout audit log.                                  *)
C7_ForcedEndSucceeds ==
  (last.op = "force_end" /\ last.live) =>
     /\ \E i \in 1..Len(last.made) : last.made[i].op = "create_prediction"
     /\ \A i \in 1..Len(last.made) :
           /\ ~(last.made[i].op = "update_session_status" /\ last.made[i].arg = "error")
           /\ ~(last.made[i].op = "create_audit_log" /\ last.made[i].arg.action = "session_timeout")

(* C8: PCG happy path.  When the end_pcg of a PCG-only session whose       *)
(* buffer stayed below the cap and never timed out has been processed,     *)
(* there is exactly one recording row, one prediction row with a label in  *)
(* {Normal, Murmur, Artifact} and one pcg_inference_completed audit log,   *)
(* and the statuses emitted are streaming, processing.                     *)
C8_PcgHappyPath ==
  ( /\ last.op = "end" /\ last.live /\ last.m = "pcg"
    /\ created[<<last.s, "pcg">>] = 1 /\ created[<<last.s, "ecg">>] = 0
    /\ last.buf.chunks # << >>
    /\ ~(last.buf.sample_rate > 0 /\ last.buf.total_samples >= 15 * last.buf.sample_rate)
    /\ now <= 10 )
  =>
    /\ RowsFor(LastKey, "create_recording") = 1
    /\ RowsFor(LastKey, "create_prediction") = 1
    /\ \A i \in CallIdx : calls[i].op = "create_prediction"
                              => calls[i].arg \in {"Normal", "Murmur", "Artifact"}
    /\ Cardinality({i \in CallIdx : /\ calls[i].op = "create_audit_log"
                                     /\ calls[i].sid = last.s
                                     /\ calls[i].arg.action = "pcg_inference_completed"}) = 1
    /\ Statuses(last.s) = <<"streaming", "processing">>

(* C9: a chunk or an end for a key with no live buffer makes no gateway    *)
(* call, finalizes nothing and leaves the buffer map unchanged; the chunk  *)
(* schedules nothing either.                                               *)
C9_AbsentBufferNoEffect ==
  [][ /\ (msgs' = msgs + 1 /\ last'.op = "chunk" /\ ~Live(buffers, <<last'.s, last'.m>>))
         => UNCHANGED <<buffers, calls, tasks, finalized, created, deleted>>
      /\ (msgs' = msgs + 1 /\ last'.op = "end_msg" /\ ~Live(buffers, <<last'.s, last'.m>>))
         => UNCHANGED <<buffers, calls, finalized, created, deleted>>
      /\ (tasks # << >> /\ tasks' = Tail(tasks) /\ ~Live(buffers, <<Head(tasks).s, Head(tasks).m>>))
         => UNCHANGED <<buffers, calls, finalized, created, deleted>> ]_vars

\* a chunk was dispatched for a key that has never had a buffer
C9_Witness ==
  /\ last.op = "chunk" /\ ~last.live
  /\ created[LastKey] = 0 /\ buffers = << >> /\ calls = << >>

(* C10: a start for a key whose buffer is live changes neither the buffer  *)
(* map nor the gateway calls; a start for an absent key stores a fresh     *)
(* buffer under it and emits update_session_status(streaming).             *)
C10_StartIdempotent ==
  [][ (msgs' = msgs + 1 /\ last'.op = "start") =>
        LET k == <<last'.s, last'.m>> IN
        IF Live(buffers, k)
        THEN buffers' = buffers /\ calls' = calls
        ELSE /\ Live(buffers', k)
             /\ Len(buffers') = Len(buffers) + 1
             /\ LET b == Buf(buffers', k) IN
                  /\ b.chunks = << >> /\ b.total_bytes = 0 /\ b.total_samples = 0
                  /\ ~b.ended /\ b.started_at = now /\ b.last_chunk_at = now
             /\ Len(calls') = Len(calls) + 1
             /\ calls'[Len(calls')].op = "update_session_status"
             /\ calls'[Len(calls')].sid = k[1]
             /\ calls'[Len(calls')].arg = "streaming" ]_vars

\* a duplicate start reached a buffer that already holds data
C10_Witness ==
  /\ last.op = "start" /\ last.live
  /\ Live(buffers, LastKey) /\ Buf(buffers, LastKey).chunks # << >>

\* a start message for the key whose buffer the last finalization removed, carrying
\* the ids, sample rate and format of that buffer: a redelivery of the start that
\* created it
RedeliveredStart ==
  /\ msgs' = msgs + 1 /\ last'.op = "start"
  /\ last.op \in {"end", "force_end"} /\ last.live
  /\ <<last'.s, last'.m>> = LastKey
  /\ ~Live(buffers, LastKey)
  /\ Live(buffers', LastKey) =>
        LET b == Buf(buffers', LastKey) IN
          /\ b.org_id = last.buf.org_id /\ b.device_id = last.buf.device_id
          /\ b.sample_rate = last.buf.sample_rate /\ b.format = last.buf.format

(* C11: start and end handling is idempotent under redelivery.  A start    *)
(* message processed a second time after the buffer it created has been    *)
(* finalized and removed leaves the buffer map and the gateway calls as    *)
(* they are; so does a redelivered start that finds its buffer live, and   *)
(* so does the handler of a redelivered end that finds no buffer.          *)
C11_RedeliveryIdempotent ==
  [][ /\ RedeliveredStart => (buffers' = buffers /\ calls' = calls)
      /\ (msgs' = msgs + 1 /\ last'.op = "start" /\ Live(buffers, <<last'.s, last'.m>>))
            => (buffers' = buffers /\ calls' = calls)
      /\ (tasks # << >> /\ tasks' = Tail(tasks) /\ Head(tasks).kind = "end"
            /\ ~Live(buffers, <<Head(tasks).s, Head(tasks).m>>))
            => (buffers' = buffers /\ calls' = calls) ]_vars

\* the end of key k has been accepted and its finalization has not completed:
\* the buffer is marked ended, or an end / forced-end task for k is pending
EndAccepted(k) ==
  /\ Live(buffers, k)
  /\ \/ Buf(buffers, k).ended
     \/ \E i \in 1..Len(tasks) : tasks[i].s = k[1] /\ tasks[i].m = k[2]

(* C12: once the end of a buffer has been accepted, a chunk arriving for   *)
(* its key is dropped: the buffer (chunks, total_bytes, total_samples,     *)
(* last_chunk_at) is unchanged and no further forced end is scheduled.     *)
C12_EndedDropsChunks ==
  [][ (msgs' = msgs + 1 /\ last'.op = "chunk" /\ EndAccepted(<<last'.s, last'.m>>))
        => (buffers' = buffers /\ tasks' = tasks) ]_vars

IsDone(c) == c.op = "update_session_status" /\ c.arg = "done"

\* the last step was a run of an end handler that passed its guard
Finalization == last.op \in {"end", "force_end"} /\ last.live

(* C13: update_session_status(done) is emitted only by an ECG              *)
(* finalization, as the last call of its try block, and only if no PCG     *)
(* buffer of the session is in the live map at that moment; a PCG          *)
(* finalization never emits done.  This holds of the calls made and of     *)
(* the try block as written.                                               *)
C13_DoneOnlyAfterEcg ==
  /\ \A i \in CallIdx : IsDone(calls[i]) => calls[i].m = "ecg"
  /\ Finalization =>
       /\ \A i \in 1..Len(last.plan) :
             IsDone(last.plan[i]) =>
                /\ i = Len(last.plan)
                /\ last.m = "ecg"
                /\ ~Live(buffers, <<last.s, "pcg">>)
       /\ \A i \in 1..Len(last.made) :
             IsDone(last.made[i]) => (i = Len(last.made) /\ last.made = last.plan)

\* an ECG finalization ran while the PCG buffer of its session was live: neither
\* its try block nor the calls it made contain the done status
C13_Witness ==
  /\ Finalization /\ last.m = "ecg" /\ Live(buffers, <<last.s, "pcg">>)
  /\ \A i \in 1..Len(last.plan) : ~IsDone(last.plan[i])
  /\ \A i \in CallIdx : ~IsDone(calls[i])

\* positions of the murmur_severity calls in a sequence of gateway calls
SeverityAt(cs) == {i \in 1..Len(cs) : cs[i].op = "create_murmur_severity"}

(* C14: a finalization creates a murmur_severity row if and only if it is  *)
(* a PCG finalization of a buffer whose signal the engine labels Murmur;   *)
(* the row is created right after the prediction row and carries the six   *)
(* heads location, timing, shape, grading, pitch and quality; no           *)
(* murmur_severity call is ever made on behalf of an ECG buffer.           *)
C14_SeverityIffMurmur ==
  /\ \A i \in CallIdx : calls[i].op = "create_murmur_severity" => calls[i].m = "pcg"
  /\ Finalization =>
       /\ (SeverityAt(last.made) # {}) <=> (last.m = "pcg" /\ last.label = "Murmur")
       /\ \A i \in SeverityAt(last.made) :
             /\ i > 1 /\ last.made[i - 1].op = "create_prediction"
             /\ last.made[i].arg.heads =
                  {"location", "timing", "shape", "grading", "pitch", "quality"}

(* C15: in the try block of a finalization create_recording is called      *)
(* only after an upload_file that returned success: when the upload fails  *)
(* the recording row is skipped, and create_prediction is still called.    *)
C15_RecordingOnlyAfterUpload ==
  Finalization =>
    /\ \A i \in 1..Len(last.plan) :
          last.plan[i].op = "create_recording" =>
             \E j \in 1..(i - 1) : /\ last.plan[j].op = "upload_file"
                                    /\ last.plan[j].arg.returns
    /\ (\E i \in 1..Len(last.plan) : last.plan[i].op = "upload_file")
          => \E i \in 1..Len(last.plan) : last.plan[i].op = "create_prediction"

\* the try block of the last finalization raised: it did not make all of its calls,
\* or the await of its last call raised
TryRaised == Finalization /\ Raised(last.plan)

(* C16: when a step of a finalization raises, the finalization emits       *)
(* update_session_status(error) and a <modality>_inference_failed audit    *)
(* log for the session, and emits no done status.                          *)
C16_FailureReported ==
  TryRaised =>
    /\ \E i \in 1..Len(last.made) :
          /\ last.made[i].op = "update_session_status" /\ last.made[i].sid = last.s
          /\ last.made[i].arg = "error"
    /\ \E i \in 1..Len(last.made) :
          /\ last.made[i].op = "create_audit_log" /\ last.made[i].sid = last.s
          /\ last.made[i].arg.action = (IF last.m = "pcg" THEN "pcg_inference_failed"
                                                           ELSE "ecg_inference_failed")
    /\ \A i \in 1..Len(last.made) : ~IsDone(last.made[i])

(* C17: when an end handler that passed its guard has returned, on the     *)
(* success path or on the failure path, also when the error-status update  *)
(* or the failure audit log itself failed, its buffer key is absent from   *)
(* the live map.                                                           *)
C17_RemovedAfterFinalization ==
  Finalization => ~Live(buffers, LastKey)

\* a finalization whose try block raised and whose except block raised in turn
\* (the error status was the last call made) has returned
C17_Witness ==
  /\ TryRaised /\ ~Live(buffers, LastKey)
  /\ Len(last.made) = 2 /\ last.made[2].arg = "error"
  /\ deleted[LastKey] = 1

RECURSIVE SumLens(_)
SumLens(q) == IF q = << >> THEN 0 ELSE Head(q) + SumLens(Tail(q))

(* C18: buffer accounting.  For every int16 buffer, after any sequence of  *)
(* add_chunk calls, total_bytes is the sum of the chunk lengths,           *)
(* total_samples is total_bytes divided by 2 (also when chunks have odd    *)
(* lengths), and the duration is total_samples / sample_rate, or 0 when    *)
(* total_samples or the sample rate is 0.                                  *)
C18_BufferAccounting ==
  \A i \in 1..Len(buffers) :
     LET b == buffers[i] IN
     b.format \in {"pcm_s16le", "int16"} =>
        /\ b.total_bytes = SumLens(b.chunks)
        /\ b.total_samples = b.total_bytes \div 2
        /\ get_duration(b) = IF b.total_samples = 0 \/ b.sample_rate = 0
                              THEN <<0, 1>>
                              ELSE <<b.total_bytes \div 2, b.sample_rate>>

(* C19: a start whose format is not one of the formats the sample count    *)
(* knows (pcm_s16le, int16) creates no buffer: every buffer in the live    *)
(* map has a known format, so none is counted with the fallback of one     *)
(* byte per sample.                                                        *)
C19_UnknownFormatRejected ==
  \A i \in 1..Len(buffers) :
     /\ buffers[i].format \in {"pcm_s16le", "int16"}
     /\ bytes_per_sample(buffers[i].format) = 2

\* the last message came on a topic that does not have 8 segments, or whose org,
\* device or session id segment is empty
InvalidTopicMsg(l) ==
  \/ l.op = "dropped"
  \/ /\ l.op \in {"start", "chunk", "end_msg", "heartbeat", "ignored"}
     /\ (l.org = "" \/ l.dev = "" \/ l.s = "")

(* C20: a message whose topic does not split into exactly 8 segments, or   *)
(* whose org, device or session id segment is empty, is dropped: the       *)
(* buffer map is unchanged, no gateway call is made and no task is         *)
(* scheduled.                                                              *)
C20_InvalidTopicDropped ==
  [][ (msgs' = msgs + 1 /\ InvalidTopicMsg(last'))
        => UNCHANGED <<buffers, calls, tasks>> ]_vars

\* the payload is not a JSON object, or its type is none of the four meta types
InvalidMeta(p) ==
  \/ p.form # "object"
  \/ "type" \notin DOMAIN p
  \/ p.type \notin {"start_pcg", "end_pcg", "start_ecg", "end_ecg"}

\* the messages on an accepted meta topic whose payload is invalid
InvalidMetaMsgs ==
  { msg \in RouterMsgs : Len(msg[1]) = 8 /\ msg[1][8] = "meta" /\ InvalidMeta(msg[2]) }

(* C21: a meta message whose payload is not valid UTF-8 JSON, or whose     *)
(* type is not one of start_pcg, end_pcg, start_ecg, end_ecg, is dropped:  *)
(* the buffer map is unchanged (nothing created, ended or removed), no     *)
(* gateway call is made and no task is scheduled.                          *)
C21_BadMetaDropped ==
  [][ \A msg \in InvalidMetaMsgs :
         OnMessage(msg[1], msg[2])
           => UNCHANGED <<buffers, calls, tasks, created, deleted, finalized>> ]_vars

\* a meta message with an invalid payload was handled while a buffer with data
\* was live
C21_Witness ==
  /\ last.op \in {"meta_error", "ignored"}
  /\ InvalidMeta(last.payload)
  /\ buffers # << >> /\ buffers[1].chunks # << >>

\* the heartbeat messages on an accepted topic
HeartbeatMsgs ==
  { msg \in RouterMsgs : Len(msg[1]) = 8 /\ msg[1][8] = "heartbeat" }

(* C22: a heartbeat message only schedules the last-seen update of its     *)
(* device, and that update only calls update_device_last_seen for the      *)
(* device: neither step changes the buffer map or any buffer (chunks,      *)
(* counters, last_chunk_at, ended flag), so a heartbeat neither creates a  *)
(* session nor postpones a stream timeout.                                 *)
C22_HeartbeatFrame ==
  [][ /\ \A msg \in HeartbeatMsgs :
           OnMessage(msg[1], msg[2]) =>
              /\ UNCHANGED <<buffers, calls, created, deleted, finalized>>
              /\ tasks' = Append(tasks, [kind |-> "heartbeat", s |-> "-", m |-> "-",
                                          dev |-> msg[1][4]])
      /\ (tasks # << >> /\ tasks' = Tail(tasks) /\ Head(tasks).kind = "heartbeat") =>
              /\ UNCHANGED <<buffers, created, deleted, finalized>>
              /\ Len(calls') = Len(calls) + 1
              /\ calls'[Len(calls')].op = "update_device_last_seen"
              /\ calls'[Len(calls')].arg = Head(tasks).dev ]_vars

\* the last-seen update of a heartbeat ran, later than the last chunk of a live
\* buffer of the same device
C22_Witness ==
  /\ last.op = "heartbeat_task"
  /\ calls # << >> /\ calls[Len(calls)].op = "update_device_last_seen"
  /\ \E i \in 1..Len(buffers) :
        /\ buffers[i].device_id = calls[Len(calls)].arg
        /\ buffers[i].chunks # << >>
        /\ buffers[i].last_chunk_at < now

(* C23: the chunks of a buffer are held in arrival order and a             *)
(* finalization uploads exactly their concatenation: it makes an           *)
(* upload_file call whose data has as many bytes as the accepted chunks    *)
(* together.                                                               *)
C23_UploadIsConcatenation ==
  Finalization =>
    \E i \in 1..Len(last.made) :
       /\ last.made[i].op = "upload_file"
       /\ last.made[i].arg.bytes = SumLens(last.buf.chunks)

(* ---------------------- inference engine claims ----------------------- *)
\* the last predict call returned a record
ResultOf(fn) == result.fn = fn /\ ~result.raised

AnyResult == result.fn # "none" /\ ~result.raised

(* C24: in every record returned by predict_pcg, predict_murmur_severity   *)
(* and predict_ecg, demo_mode is true exactly when model_version is        *)
(* "demo", and model_version is "v1.0.0" otherwise, whatever model         *)
(* loading found.                                                          *)
C24_DemoFlagConsistent ==
  AnyResult =>
    /\ result.value.demo_mode <=> result.value.model_version = "demo"
    /\ ~result.value.demo_mode => result.value.model_version = "v1.0.0"

\* a prediction returned by an engine that fell back to demo mode after its
\* first model had loaded
C24_Witness ==
  /\ ResultOf("predict_pcg")
  /\ result.value.demo_mode
  /\ result.value.model_version = "demo"
  /\ engine.files[1] = "ok"
  /\ engine.files[2] = "missing"

AnyFailed(files) == \E i \in 1..3 : files[i] # "ok"

HandlesAll(e, v) == e.pcg_model = v /\ e.severity_model = v /\ e.ecg_model = v

(* C25: when one of the three models is missing or fails to load and demo  *)
(* mode is enabled, the engine starts with demo_mode_active true and all   *)
(* three model handles null, those that had loaded included; when demo     *)
(* mode is disabled, construction fails; demo_mode_active is false in a    *)
(* started engine only when all three models loaded.                       *)
C25_ModelLoading ==
  /\ (AnyFailed(engine.files) /\ engine.enable_demo_mode)
        => engine.constructed /\ engine.demo_mode_active /\ HandlesAll(engine, "None")
  /\ (AnyFailed(engine.files) /\ ~engine.enable_demo_mode) => ~engine.constructed
  /\ (engine.constructed /\ ~engine.demo_mode_active)
        => ~AnyFailed(engine.files) /\ HandlesAll(engine, "loaded")

\* the third model failed to load after the first two had loaded, the engine
\* fell back to demo mode and has answered a call
C25_Witness ==
  /\ engine.files = <<"ok", "ok", "corrupt">>
  /\ engine.enable_demo_mode
  /\ engine.demo_mode_active
  /\ engine.pcg_model = "None"
  /\ ResultOf("predict_ecg")

RECURSIVE SumOver(_, _)
\* sum of the values of p over the keys in S
SumOver(p, S) ==
  IF S = {} THEN 0
  ELSE LET l == CHOOSE x \in S : TRUE IN p[l] + SumOver(p, S \ {l})

\* entries in [0, 1] and a sum within 1e-3 of 1.0, in hundredths
IsDistribution(p) ==
  /\ \A l \in DOMAIN p : p[l] >= 0 /\ p[l] <= 100
  /\ SumOver(p, DOMAIN p) = 100

\* the probabilities mappings of a returned record
ProbMapsOf(r) ==
  IF r.fn = "predict_murmur_severity"
  THEN { r.value[h].probabilities : h \in SeverityHeads }
  ELSE { r.value.probabilities }

(* C26: every probabilities mapping of every returned prediction, PCG,     *)
(* ECG and each of the six severity heads, on every demo branch, has all   *)
(* its entries in [0, 1] and sums to 1.0.                                  *)
C26_ProbabilitiesSumToOne ==
  AnyResult => \A p \in ProbMapsOf(result) : IsDistribution(p)

\* a demo severity record with its six heads has been returned
C26_Witness ==
  /\ ResultOf("predict_murmur_severity")
  /\ result.value.demo_mode
  /\ Cardinality(ProbMapsOf(result)) = 6
  /\ \A h \in SeverityHeads : Cardinality(DOMAIN result.value[h].probabilities) >= 4

\* the engine runs in demo mode
DemoEngine == engine.constructed /\ engine.demo_mode_active

(* C27: in demo mode predict_pcg returns a label in {Normal, Murmur,       *)
(* Artifact} together with the probability vector of that label's branch,  *)
(* the label is chosen by a rule on the input signal, and some input       *)
(* selects the Murmur branch.                                              *)
C27_DemoPcgSelectsMurmur ==
  (DemoEngine /\ ResultOf("predict_pcg")) =>
    /\ result.value.label \in PcgLabels
    /\ result.value.probabilities =
         ProbMap(pcg_classes,
                 CASE result.value.label = "Murmur" -> <<20, 70, 10>>
                   [] result.value.label = "Artifact" -> <<15, 20, 65>>
                   [] OTHER -> <<75, 15, 10>>, 3)
    /\ \E in \in PcgInputs :
         /\ ~predict_pcg(engine, in).raised
         /\ predict_pcg(engine, in).value.label = "Murmur"

EcgResultKeys == {"prediction", "confidence", "model_name", "model_version",
                  "preprocessing_version", "latency_ms", "demo_mode"}

\* a record returned by predict_ecg in demo mode, with the keys of the contract
DemoEcgRecord ==
  /\ EcgResultKeys \subseteq DOMAIN result.value
  /\ result.value.demo_mode

PublishEnded == last.op = "publish"

\* the live map at the end of the pass is not the one the pass began with
MapChanged == PublishEnded /\ last.keys0 # last.keys1

MetricsFor(k) ==
  {i \in CallIdx : calls[i].op = "create_live_metrics" /\ calls[i].sid = k[1] /\ calls[i].m = k[2]}

(* C29: the live-metrics publisher walks a snapshot of the live map: when  *)
(* a buffer is added to the map by the router during a pass, the pass      *)
(* does not abort, and what it acted on is a live buffer that has not      *)
(* ended.                                                                  *)
C29_PassSurvivesChange ==
  MapChanged =>
    /\ last.outcome = "completed"
    /\ \A i \in 1..Len(buffers) :
          MetricsFor(KeyOf(buffers[i])) # {} => ~buffers[i].ended

(* C30: a failure while the publisher handles one buffer does not keep     *)
(* the other live buffers from being handled: once two passes have begun   *)
(* with a buffer in the live map, metrics have been emitted for it, unless *)
(* it is the buffer the pass failed on or its own metrics cannot be        *)
(* computed.                                                               *)
C30_OtherBuffersHandled ==
  PublishEnded =>
    \A i \in 1..Len(buffers) :
       ( /\ pub.seen[KeyOf(buffers[i])] >= 2
         /\ ~buffers[i].ended
         /\ KeyOf(buffers[i]) # <<last.s, last.m>>
         /\ ~QualityRaises(buffers[i]) )
       => MetricsFor(KeyOf(buffers[i])) # {}

(* ------------------------- pipeline claims ---------------------------- *)
\* the names of the calls of a sequence, in order
OpsOf(cs) == [i \in 1..Len(cs) |-> cs[i].op]

\* the order the pipeline is to follow for a buffer b labelled label, with
\* pcgLive telling whether the session's PCG buffer is live
PipelineOrder(b, label, pcgLive) ==
  << "update_session_status", "upload_file", "create_recording", "create_prediction" >>
  \o (IF b.modality = "pcg" /\ label = "Murmur" THEN << "create_murmur_severity" >> ELSE << >>)
  \o << "create_audit_log" >>
  \o (IF b.modality = "ecg" /\ ~pcgLive THEN << "update_session_status" >> ELSE << >>)

CallsBeforeLast == SubSeq(calls, 1, Len(calls) - Len(last.made))

\* the sweeper gave the session of key k status error: for a key whose only
\* buffer had not been finalized before, no other handler emits error
MarkedTimedOut(cs, k) ==
  \E i \in 1..Len(cs) : /\ cs[i].op = "update_session_status" /\ cs[i].arg = "error"
                        /\ cs[i].sid = k[1] /\ cs[i].m = k[2]

WellFormedB64(chars) ==
  /\ Len(chars) % 4 = 0
  /\ \A i \in 1..Len(chars) :
        \/ chars[i] = "A"
        \/ /\ chars[i] = "="
           /\ i > Len(chars) - 2
           /\ \A j \in i..Len(chars) : chars[j] = "="

\* the number of bytes a canonical base64 string stands for
B64Bytes(chars) ==
  3 * (Len(chars) \div 4) - Cardinality({i \in 1..Len(chars) : chars[i] = "="})

\* a payload in the JSON form {"data": "<base64>"}
JsonChunk(p) ==
  /\ p.form = "object" /\ "data" \in DOMAIN p
  /\ p.data.kind = "string" /\ WellFormedB64(p.data.chars)

\* a payload that starts with '{' and is not valid JSON or not valid base64
InvalidChunk(p) ==
  \/ p.form \in {"not_utf8", "not_json"}
  \/ p.form = "object" /\ "data" \in DOMAIN p
       /\ (p.data.kind # "string" \/ ~WellFormedB64(p.data.chars))

(* C33: for a data message to a live buffer, the bytes appended are the    *)
(* payload itself when its first byte is not '{' and the base64 decoding   *)
(* of the data member of the JSON payload otherwise; a payload that starts *)
(* with '{' and is not valid JSON or base64 leaves the buffer map          *)
(* unchanged and schedules no forced end.                                  *)
C33_ChunkDecoding ==
  [][ \A org \in Orgs, dev \in Devices, s \in Sessions, m \in Modalities, p \in DataPayloads :
        (DataMsg(org, dev, s, m, p) /\ Live(buffers, <<s, m>>)) =>
           /\ p.form = "raw" => buffers' = ChunkAppend(buffers, <<s, m>>, p.len, now)
           /\ JsonChunk(p) =>
                 buffers' = ChunkAppend(buffers, <<s, m>>, B64Bytes(p.data.chars), now)
           /\ InvalidChunk(p) => UNCHANGED <<buffers, tasks>> ]_vars

(* -------------------------- tenant isolation -------------------------- *)
\* the buffer of the last message's key belongs to the org and device of the
\* message's topic
SameTenant ==
  /\ Buf(buffers, LastKey).org_id = last.org
  /\ Buf(buffers, LastKey).device_id = last.dev

(* C34: a chunk or end message that finds a buffer for its session and     *)
(* modality finds one whose org_id and device_id are the org and device of *)
(* the message's topic, and a start that finds a buffer already there      *)
(* finds one of its own org: no message acts on, or is absorbed by, a      *)
(* buffer of another org or device with the same session id.               *)
C34_TenantIsolation ==
  (last.op \in {"chunk", "end_msg", "start"} /\ last.live /\ Live(buffers, LastKey))
     => SameTenant

(* ----------------------------- liveness ------------------------------- *)
\* the sweeper pass that has just run found the buffer of key k stale
SweptStale(k) == last.op = "sweep" /\ k \in last.stale

\* a pass of the sweeper, at whatever time it runs, leaves the live map as it is:
\* what the pass at the end of the modelled time does, every later pass does
SweepNeverRemoves == [][last'.op = "sweep" => buffers' = buffers]_vars

Other(m) == IF m = "pcg" THEN "ecg" ELSE "pcg"

\* the last step finalized the second of the two streams of its session: the
\* other stream was started and finalized before, and both try blocks had a
\* signal to reconstruct
SecondFinalization ==
  /\ Finalization
  /\ ~ReconstructRaises(last.buf)
  /\ created[<<last.s, Other(last.m)>>] = 1
  /\ finalized[<<last.s, Other(last.m)>>] = 1

(* C36: when both the PCG and the ECG stream of a session were started and *)
(* both finalizations go through, the session becomes done, whichever      *)
(* modality is ended first: the try block of the finalization that         *)
(* completes the pair calls update_session_status(done).                   *)
C36_BothDone ==
  SecondFinalization => \E i \in 1..Len(last.plan) : IsDone(last.plan[i])

\* the calls of operation op in a sequence of gateway calls
CallsOf(cs, op) == {i \in 1..Len(cs) : cs[i].op = op}

\* two bytes per sample in the uploaded int16 file
UploadedSamples(c) == c.arg.bytes \div 2

(* C37: the duration written to a recording row equals the number of       *)
(* samples in the bytes uploaded for that recording divided by the sample  *)
(* rate of the buffer, whatever chunks arrived before the finalization.    *)
C37_DurationMatchesUpload ==
  (Finalization /\ last.buf.sample_rate > 0) =>
     \A i \in CallsOf(last.plan, "upload_file"), j \in CallsOf(last.plan, "create_recording") :
        last.plan[j].arg[1] * last.buf.sample_rate
          = UploadedSamples(last.plan[i]) * last.plan[j].arg[2]

\* the last call was a demo-mode predict_ecg on the signal of an int16 buffer
DemoEcgOnSignal ==
  /\ result.fn = "predict_ecg"
  /\ "samples" \in DOMAIN result.input
  /\ engine.demo_mode_active

NormalAnswer ==
  /\ ~result.raised
  /\ result.value.prediction = "Normal"
  /\ result.value.confidence = 81

(* C38: for every ECG signal reconstructed from an int16 buffer demo-mode  *)
(* predict_ecg returns Normal with confidence 0.81.                        *)
C38_DemoEcgAlwaysNormal == DemoEcgOnSignal => NormalAnswer

(* C38: the samples of a signal reconstructed from an int16 buffer lie in  *)
(* [-1, 1), its variance is at most 1.0, and demo-mode predict_ecg, when   *)
(* it returns for such a signal, returns Normal with confidence 0.81: the  *)
(* SVEB and VEB branches are not reached.  It raises when the              *)
(* preprocessing of the signal raises.                                     *)
C38_DemoEcgNormalWhenReturned ==
  DemoEcgOnSignal =>
     /\ result.input.var100 <= 100
     /\ result.raised <=> EcgPreprocessRaises(Len(result.input.samples), result.input.rate)
     /\ ~result.raised => NormalAnswer

\* a returned demo answer for a signal that swings over the whole range
C38_Witness ==
  /\ DemoEcgOnSignal
  /\ ~result.raised
  /\ \E i, j \in 1..Len(result.input.samples) :
        /\ result.input.samples[i] = -FullScale
        /\ result.input.samples[j] = FullScale - 1
  /\ result.input.var100 = 100

====
